---- MODULE Spec2Model ----
(***************************************************************************)
(* Face identity worker: feature normalisation (face.js), the distance     *)
(* engine (FaceFeatures.distance / find) and the partition scan of the     *)
(* worker (verify / getFaceFeatures / the message handler).                *)
(*                                                                         *)
(* Numbers.  JavaScript doubles are modelled in fixed point: a coordinate  *)
(* is an integer count of thousandths (0.5 is 500), a distance an integer  *)
(* count of 1/60000 (so that the mean over 1..5 groups is exact).  NaN and *)
(* the two infinities are three reserved integers with IEEE arithmetic.    *)
(* The square root is exact on perfect squares and rounds down otherwise;  *)
(* the inputs drawn below only produce perfect squares.                    *)
(***************************************************************************)
EXTENDS Integers, Sequences, FiniteSets, TLC

\* A const binding: e is evaluated once and F applied to its value.  (JavaScript
\* evaluates an argument once, before the call; the operators below that use
\* an argument several times bind it first.)
With(e, F(_)) == CHOOSE r \in {F(x) : x \in {e}} : TRUE

\* ------------------------------------------------------------------ numbers

\* FaceLandmark.scale = 1, in thousandths.
scale == 1000

NaN == 0 - (2^30)
PosInf == (2^30) - 1
NegInf == 0 - ((2^30) - 1)

IsNaN(v) == v = NaN
IsInf(v) == v = PosInf \/ v = NegInf
IsFinite(v) == ~IsNaN(v) /\ ~IsInf(v)

Neg(v) == With(v, LAMBDA x : IF IsNaN(x) THEN NaN ELSE 0 - x)

\* a + b on doubles
Add(a, b) ==
    With(<<a, b>>, LAMBDA p :
        IF IsNaN(p[1]) \/ IsNaN(p[2]) THEN NaN
        ELSE IF IsInf(p[1]) /\ IsInf(p[2]) THEN (IF p[1] = p[2] THEN p[1] ELSE NaN)
        ELSE IF IsInf(p[1]) THEN p[1]
        ELSE IF IsInf(p[2]) THEN p[2]
        ELSE p[1] + p[2])

\* a - b on doubles
Sub(a, b) == Add(a, Neg(b))

Sign(v) == IF v > 0 THEN 1 ELSE IF v < 0 THEN 0 - 1 ELSE 0

\* b * b on doubles, for a difference b of two coordinates (in millionths)
Sq(b) ==
    With(b, LAMBDA x :
        IF IsNaN(x) THEN NaN
        ELSE IF IsInf(x) THEN PosInf
        ELSE x * x)

\* the integer square root of n > 0, by Newton's iteration from r
SqrtIter[n \in Nat, r \in Nat] ==
    LET r2 == (r + (n \div r)) \div 2
    IN  IF r2 >= r THEN r ELSE SqrtIter[n, r2]

\* Math.sqrt of a sum of squares (millionths in, thousandths out)
Sqrt(n) ==
    With(n, LAMBDA x :
        IF IsNaN(x) THEN NaN
        ELSE IF x = PosInf THEN PosInf
        ELSE IF x < 0 THEN NaN
        ELSE IF x = 0 THEN 0
        ELSE SqrtIter[x, x])

\* A scale factor scale / d is kept as the ratio [n |-> scale, d |-> d]:
\* a zero denominator is the double Infinity.
Ratio(n, d) == [n |-> n, d |-> d]

\* v * s for a coordinate v and a scale factor s
Mul(v, s) ==
    With(<<v, s>>, LAMBDA p :
        IF IsNaN(p[1]) \/ IsNaN(p[2].d) \/ IsNaN(p[2].n) THEN NaN
        ELSE IF p[2].d = 0 \/ IsInf(p[2].n)
             THEN (IF p[1] = 0 THEN NaN ELSE IF p[1] > 0 THEN PosInf ELSE NegInf)
        ELSE IF IsInf(p[2].d) THEN (IF IsInf(p[1]) THEN NaN ELSE 0)
        ELSE IF IsInf(p[1]) THEN p[1]
        ELSE (p[1] * p[2].n) \div p[2].d)

Abs(v) == With(v, LAMBDA x : IF IsNaN(x) THEN NaN ELSE IF x < 0 THEN 0 - x ELSE x)

\* ------------------------------------------------------------------- Point

\* An optional value: << >> is undefined, <<v>> is the value v.
None == << >>
Some(v) == <<v>>

\* The six steps of Point.normalize, in the order of the source's list.
\* Each argument of args is optional (undefined or null skips its step).
NormalizeSteps(args) ==
    << <<"x", args.xMin, "-">>, <<"y", args.yMin, "-">>, <<"z", args.zMin, "-">>,
       <<"x", args.xScale, "*">>, <<"y", args.yScale, "*">>, <<"z", args.zScale, "*">> >>

\* Mutant of PointStep: the subtraction is taken the other way round,
\* v - this[k].
PointStepReversed(p, step) ==
    LET k == step[1]
        v == step[2]
        op == step[3]
    IN  IF v = None THEN p
        ELSE [p EXCEPT ![k] = IF op = "-" THEN Sub(v[1], p[k]) ELSE Mul(p[k], v[1]),
                       !.orig = [p.orig EXCEPT ![k] = Some(p[k])]]

\* The closure f(k, v, op) of Point.normalize: save this[k] in orig[k], then
\* apply the operation.
PointStep(p, step) ==
    LET k == step[1]
        v == step[2]
        op == step[3]
    IN  IF v = None THEN p
        ELSE [p EXCEPT ![k] = IF op = "-" THEN Sub(p[k], v[1]) ELSE Mul(p[k], v[1]),
                       !.orig = [p.orig EXCEPT ![k] = Some(p[k])]]

RECURSIVE PointSteps(_, _)
PointSteps(p, steps) ==
    IF steps = << >> THEN p
    ELSE With(PointStep(p, Head(steps)), LAMBDA next : PointSteps(next, Tail(steps)))

\* Point.normalize
PointNormalize(p, args) ==
    With(NormalizeSteps(args), LAMBDA steps : PointSteps(p, steps))

\* Point.from / the constructor: orig is not set until normalize runs.
PointFrom(kp) ==
    [name |-> kp.name, x |-> kp.x, y |-> kp.y, z |-> kp.z,
     orig |-> [x |-> None, y |-> None, z |-> None]]

\* Point.flatten
PointFlatten(p) == <<p.x, p.y, p.z>>

\* ------------------------------------------------------------------ Points

\* Points.from
PointsFrom(keypoints) == [i \in 1..Len(keypoints) |-> PointFrom(keypoints[i])]

RECURSIVE MinOf(_)
MinOf(s) ==
    IF Len(s) = 1 THEN s[1]
    ELSE With(MinOf(Tail(s)), LAMBDA m : IF s[1] < m THEN s[1] ELSE m)

RECURSIVE MaxOf(_)
MaxOf(s) ==
    IF Len(s) = 1 THEN s[1]
    ELSE With(MaxOf(Tail(s)), LAMBDA m : IF s[1] > m THEN s[1] ELSE m)

\* Points.getMin: Math.min() of no argument is Infinity
getMin(points, axis) ==
    IF points = << >> THEN PosInf
    ELSE MinOf([i \in 1..Len(points) |-> points[i][axis]])

\* Points.getMax: Math.max() of no argument is -Infinity
getMax(points, axis) ==
    IF points = << >> THEN NegInf
    ELSE MaxOf([i \in 1..Len(points) |-> points[i][axis]])

\* Points.normalize
PointsNormalize(points, args) ==
    With(<<points, args>>, LAMBDA a :
        [i \in 1..Len(a[1]) |-> PointNormalize(a[1][i], a[2])])

\* Points.getNamed
getNamed(points, name) == SelectSeq(points, LAMBDA p : p.name = name)

RECURSIVE PointsFlatten(_)
\* Points.flatten
PointsFlatten(points) ==
    IF points = << >> THEN << >>
    ELSE PointFlatten(Head(points)) \o PointsFlatten(Tail(points))

\* ------------------------------------------------------------ FaceLandmark

\* FaceLandmark.markers, in the order of the class field: <<key, isFeature>>
markers ==
    << <<"faceOval", FALSE>>, <<"leftEye", TRUE>>, <<"leftEyebrow", FALSE>>,
       <<"leftIris", TRUE>>, <<"lips", TRUE>>, <<"rightEye", TRUE>>,
       <<"rightEyebrow", FALSE>>, <<"rightIris", TRUE>> >>

\* The arguments the constructor passes to Points.normalize; zMin and zMax
\* are taken over all keypoints, before any point is rewritten.
LandmarkArgs(box, points) ==
    [xMin |-> Some(box.xMin),
     yMin |-> Some(box.yMin),
     zMin |-> Some(getMin(points, "z")),
     xScale |-> Some(Ratio(scale, box.width)),
     yScale |-> Some(Ratio(scale, box.height)),
     zScale |-> Some(Ratio(scale, Abs(Sub(getMax(points, "z"), getMin(points, "z")))))]

\* new FaceLandmark({shape, box, keypoints}): the normalized points; the
\* group of a marker key is getNamed(points, key), kept when non-empty.
FaceLandmark(lm) ==
    With(PointsFrom(lm.keypoints), LAMBDA points :
        [box |-> lm.box,
         points |-> PointsNormalize(points, LandmarkArgs(lm.box, points))])

\* ------------------------------------------------------------ FaceFeatures
\* A FaceFeatures object is the sequence of its own properties in insertion
\* order, each [k |-> key, v |-> flat sequence of numbers].

FeatureKeys(feat) == [i \in 1..Len(feat) |-> feat[i].k]

HasKey(feat, key) == \E i \in 1..Len(feat) : feat[i].k = key

FeatureGet(feat, key) == feat[CHOOSE i \in 1..Len(feat) : feat[i].k = key].v

\* FaceFeatures.add: this[key] = values (an existing key keeps its place)
FeaturesAdd(feat, key, values) ==
    With(feat, LAMBDA this :
        IF HasKey(this, key)
        THEN [i \in 1..Len(this) |-> IF this[i].k = key THEN [k |-> key, v |-> values] ELSE this[i]]
        ELSE Append(this, [k |-> key, v |-> values]))

RECURSIVE FeaturesFromEntries(_, _)
FeaturesFromEntries(feat, entries) ==
    IF entries = << >> THEN feat
    ELSE FeaturesFromEntries(FeaturesAdd(feat, Head(entries).k, Head(entries).v), Tail(entries))

\* FaceFeatures.from(data): add every entry of the wire map
FeaturesFrom(data) == FeaturesFromEntries(<< >>, data)

RECURSIVE GetFeaturesFrom(_, _, _)
GetFeaturesFrom(face, feat, ms) ==
    IF ms = << >> THEN feat
    ELSE LET key == Head(ms)[1]
             isFeature == Head(ms)[2]
             group == getNamed(face.points, key)
         IN  GetFeaturesFrom(face,
                 IF isFeature /\ group # << >>
                 THEN FeaturesAdd(feat, key, PointsFlatten(group))
                 ELSE feat,
                 Tail(ms))

\* Mutant of getFeatures: the isFeature flag of the markers is ignored.
getFeaturesOfAllMarkers(face) ==
    GetFeaturesFrom(face, << >>, [i \in 1..Len(markers) |-> <<markers[i][1], TRUE>>])

\* FaceLandmark.getFeatures
getFeatures(face) == GetFeaturesFrom(face, << >>, markers)

RECURSIVE SumSquares(_, _, _)
\* reduce((a, b) => a + b * b, 0) over the pairs p.x - p.y, k = 1..Len(av);
\* a missing bv[k] is undefined and the difference NaN
SumSquares(av, bv, k) ==
    IF k > Len(av) THEN 0
    ELSE LET d == IF k <= Len(bv) THEN Sub(av[k], bv[k]) ELSE NaN
         IN  Add(SumSquares(av, bv, k + 1), Sq(d))

\* values[feature] of distance(): the Euclidean norm over one group
GroupDistance(av, bv) == Sqrt(SumSquares(av, bv, 1))

RECURSIVE SumGroups(_, _, _)
SumGroups(a, b, i) ==
    IF i > Len(a) THEN 0
    ELSE Add(GroupDistance(a[i].v, IF HasKey(b, a[i].k) THEN FeatureGet(b, a[i].k) ELSE << >>),
             SumGroups(a, b, i + 1))

\* sum / n, from thousandths to units of 1/60000
Mean(sum, n) ==
    With(sum, LAMBDA x :
        IF IsNaN(x) THEN NaN
        ELSE IF n = 0 THEN (IF x = 0 THEN NaN ELSE x)
        ELSE IF IsInf(x) THEN x
        ELSE (x * 60) \div n)

\* distance() throws: the key counts differ (the explicit Error), or a key of
\* this is missing in features (features[feature][k] of undefined, a
\* TypeError; the map callback runs only when this[feature] has an element).
DistanceThrows(a, b) ==
    \/ Len(a) # Len(b)
    \/ \E i \in 1..Len(a) : ~HasKey(b, a[i].k) /\ a[i].v # << >>

\* FaceFeatures.distance, when it does not throw
distance(a, b) == Mean(SumGroups(a, b, 1), Len(a))

\* FaceFeatures.find(featuresList, confidence = 0.075)
confidence == 75 * 60

\* 1 in the unit of distances
One == scale * 60

\* Mutant of Better: without `dist <= confidence`.
BetterIgnoringThreshold(dist, conf, threshold) ==
    /\ ~IsNaN(dist)
    /\ (conf = None \/ dist < conf[1])

\* Mutant of Better: `dist <= conf` for `dist < conf`.
BetterOrEqual(dist, conf, threshold) ==
    /\ ~IsNaN(dist)
    /\ dist <= threshold
    /\ (conf = None \/ dist <= conf[1])

\* dist <= confidence && (conf === undefined || dist < conf)
Better(dist, conf, threshold) ==
    /\ ~IsNaN(dist)
    /\ dist <= threshold
    /\ (conf = None \/ dist < conf[1])

RECURSIVE FindFrom(_, _, _, _, _)
\* the loop of find from position i (0-based idx = i - 1), with the running
\* [index, conf]; both optional
FindFrom(probe, list, threshold, i, acc) ==
    IF i > Len(list) THEN acc
    ELSE IF DistanceThrows(probe, list[i]) THEN [throws |-> TRUE, index |-> None, conf |-> None]
    ELSE With(distance(probe, list[i]), LAMBDA dist :
         With(IF Better(dist, acc.conf, threshold)
              THEN [throws |-> FALSE, index |-> Some(i - 1), conf |-> Some(dist)]
              ELSE acc, LAMBDA best :
            FindFrom(probe, list, threshold, i + 1, best)))

find(probe, list, threshold) ==
    With(probe, LAMBDA this :
        FindFrom(this, list, threshold, 1, [throws |-> FALSE, index |-> None, conf |-> None]))

\* ---------------------------------------------------------------- detector
\* The landmark detector is external; an image is named by what the detector
\* makes of it.  Coordinates of raw keypoints and boxes are pixels.

Px(n) == n * scale

Keypoint(name, x, y, z) == [name |-> name, x |-> Px(x), y |-> Px(y), z |-> Px(z)]

Box100 == [xMin |-> Px(0), yMin |-> Px(0), width |-> Px(100), height |-> Px(100)]

\* the probe's own face
LmSame == [box |-> Box100,
           keypoints |-> << Keypoint("lips", 50, 50, 0), Keypoint("leftEye", 30, 30, 10) >>]

\* the same face, lips 0.03 off: distance 0.015
LmNear == [box |-> Box100,
           keypoints |-> << Keypoint("lips", 53, 50, 0), Keypoint("leftEye", 30, 30, 10) >>]

\* another face: distance 0.2
LmFar == [box |-> Box100,
          keypoints |-> << Keypoint("lips", 90, 50, 0), Keypoint("leftEye", 30, 30, 10) >>]

Images == {"same", "near", "far", "noface", "corrupt"}

\* FaceDetection.getFace(input): "throw" when tf.node.decodeImage throws
\* (it is called outside the try block), "none" when estimateFaces finds no
\* face, else the first face.
DetectorGetFace(img) ==
    CASE img = "same" -> [kind |-> "face", lm |-> LmSame]
      [] img = "near" -> [kind |-> "face", lm |-> LmNear]
      [] img = "far" -> [kind |-> "face", lm |-> LmFar]
      [] img = "noface" -> [kind |-> "none"]
      [] OTHER -> [kind |-> "throw"]

\* getFace(img) of the worker: the FaceLandmark of the detected face
getFace(img) ==
    LET landmark == DetectorGetFace(img)
    IN  IF landmark.kind = "face"
        THEN [kind |-> "face", face |-> FaceLandmark(landmark.lm)]
        ELSE landmark

\* getFace(buff) and face.getFeatures() of getFaceFeatures:
\* [kind |-> "face", features |-> res], or the outcome without a face
Resolve(img) ==
    LET face == getFace(img)
    IN  IF face.kind = "face"
        THEN [kind |-> "face", features |-> getFeatures(face.face)]
        ELSE face

\* Resolve, computed once for each image of Images
Detected ==
    [same |-> Resolve("same"), near |-> Resolve("near"), far |-> Resolve("far"),
     noface |-> Resolve("noface"), corrupt |-> Resolve("corrupt")]

\* ------------------------------------------------------------------- slots
\* A slot of work.items: raw image bytes {type: 'Buffer', data}, a feature
\* vector, null (no face), or undefined (no such index).

Raw(img) == [kind |-> "Buffer", data |-> img]
Feat(f) == [kind |-> "features", feat |-> f]
Null == [kind |-> "null"]
NoSlot == [kind |-> "undefined"]

IsRaw(data) == data.kind = "Buffer"
IsFeat(data) == data.kind = "features"

\* items[index]
ItemAt(items, index) == IF index \in DOMAIN items THEN items[index] ELSE NoSlot

\* ------------------------------------------------------------------ bounds

\* number of slots of work.items (indices 0 .. NItems - 1)
NItems == 2
\* number of `do` messages delivered to the worker
MaxScans == 2

\* ------------------------------------------------------------------- state

VARIABLES
    stopped,    \* the module-level flag `stopped`
    detector,   \* TRUE once getFace has created the module-level detector
    work,       \* the work object of the `do` messages: [id, items, feature]
    scans,      \* the activations of verify, in order of their `do` message,
                \* each with the history of its own events
    call        \* a direct call of a function of face.js: its arguments and,
                \* once applied, its outcome (NoCall while the worker runs)

vars == <<stopped, detector, work, scans, call>>

NoCall == [op |-> "none"]

\* the probe: the wire map of the features of the probe's face
ProbeFeature == Detected["same"].features

\* a cached vector whose lips group holds one point more than the detector's
CachedLonger ==
    [i \in 1..Len(Detected["near"].features) |->
        IF Detected["near"].features[i].k = "lips"
        THEN [k |-> "lips", v |-> Detected["near"].features[i].v \o <<0, 0, 0>>]
        ELSE Detected["near"].features[i]]

\* a cached vector with as many groups under another name (rightEye for lips)
CachedOtherKeys ==
    [i \in 1..Len(Detected["near"].features) |->
        IF Detected["near"].features[i].k = "lips"
        THEN [k |-> "rightEye", v |-> Detected["near"].features[i].v]
        ELSE Detected["near"].features[i]]

\* work.feature as the host sends it: the probe's wire map, or undefined
InitProbes == {Some(ProbeFeature), None}

\* what a slot may hold when the host sends the work: raw bytes, a cached
\* vector (of the detector's shape or not), or the cached null
InitSlots ==
    {Raw(img) : img \in Images}
        \cup {Feat(Detected["near"].features), Feat(CachedLonger), Feat(CachedOtherKeys), Null}

NoMatch == [kind |-> "null"]

\* ------------------------------------------------------------------ verify

\* Mutant of Matched: the label is the position in the candidate list, not
\* the absolute index.
MatchedByPosition(indices, found) ==
    [kind |-> "match", label |-> found.index[1], confidence |-> One - found.conf[1]]

\* Mutant of Matched: the confidence is the distance, not 1 - distance.
MatchedWithDistance(indices, found) ==
    [kind |-> "match", label |-> indices[found.index[1] + 1], confidence |-> found.conf[1]]

\* {label: indices[match], confidence: 1 - confidence}
Matched(indices, found) ==
    [kind |-> "match", label |-> indices[found.index[1] + 1], confidence |-> One - found.conf[1]]

\* Mutant of SendDone: the loop returns on the flag instead of breaking, so
\* a cancelled scan sends no `done`.
SendDoneUnlessCancelled(sc) ==
    IF sc.cancelled THEN [sc EXCEPT !.pc = "done"]
    ELSE [sc EXCEPT !.pc = "done", !.events = Append(@, [cmd |-> "done", matched |-> sc.matched])]

\* Worker.send({cmd: 'done', work, matched, worker}), the last statement of
\* verify
SendDone(sc) ==
    [sc EXCEPT !.pc = "done", !.events = Append(@, [cmd |-> "done", matched |-> sc.matched])]

\* Mutant of Catch: verify without its try/catch, the exception leaves verify
\* and no `done` is sent.
CatchRethrow(sc) == [sc EXCEPT !.buff = None, !.error = TRUE, !.pc = "done"]

\* an exception inside the try block: the catch block logs it, and verify
\* goes on to its last statement
Catch(sc) == SendDone([sc EXCEPT !.buff = None, !.error = TRUE])

\* Mutant of ShouldFind: the find runs whether or not the flag is set.
ShouldFindIgnoringStop(sc, stop) == Len(sc.features) > 0

\* if (!stopped && features.length)
ShouldFind(sc, stop) == ~stop /\ Len(sc.features) > 0

\* FaceFeatures.from(work.feature) and feature.find(features): Object.entries
\* of an undefined work.feature throws (feature is optional)
ProbeFind(feature, features) ==
    IF feature = None THEN [throws |-> TRUE, index |-> None, conf |-> None]
    ELSE find(FeaturesFrom(feature[1]), features, confidence)

\* verify, after the while loop: the find over the collected features; a
\* throw of distance() is caught and leaves matched null.  (cancelled is
\* history: the value of the flag when the loop ended.)
AfterLoop(sc, stop, feature) ==
    IF ShouldFind(sc, stop)
    THEN With(ProbeFind(feature, sc.features), LAMBDA found :
             IF found.throws THEN Catch([sc EXCEPT !.cancelled = stop])
             ELSE IF found.index # None
                  THEN SendDone([sc EXCEPT !.cancelled = stop, !.matched = Matched(sc.indices, found)])
                  ELSE SendDone([sc EXCEPT !.cancelled = stop]))
    ELSE SendDone([sc EXCEPT !.cancelled = stop])

\* Mutant of Collect: every index the loop passes sends an update, a slot
\* that was already resolved included.
CollectWithUpdate(sc, res) ==
    IF IsFeat(res)
    THEN [sc EXCEPT !.features = Append(@, res.feat), !.indices = Append(@, sc.current),
                    !.count = @ + 1, !.current = @ + 1,
                    !.events = Append(@, [cmd |-> "update", index |-> sc.current, data |-> res])]
    ELSE [sc EXCEPT !.current = @ + 1,
                    !.events = Append(@, [cmd |-> "update", index |-> sc.current, data |-> res])]

\* Mutant of Collect: indices records the position of the candidate counted
\* from start, not the index of its slot.
CollectByPosition(sc, res) ==
    IF IsFeat(res)
    THEN [sc EXCEPT !.features = Append(@, res.feat), !.indices = Append(@, sc.start + sc.count),
                    !.count = @ + 1, !.current = @ + 1]
    ELSE [sc EXCEPT !.current = @ + 1]

\* if (feat) { features.push(feat); indices.push(current); count++ }  current++
Collect(sc, res) ==
    IF IsFeat(res)
    THEN [sc EXCEPT !.features = Append(@, res.feat), !.indices = Append(@, sc.current),
                    !.count = @ + 1, !.current = @ + 1]
    ELSE [sc EXCEPT !.current = @ + 1]

\* getFaceFeatures up to its await: the detector is called on the bytes of
\* the slot, and the scan suspends
CallDetector(sc, data) ==
    [sc EXCEPT !.pc = "await", !.buff = Some(data.data),
               !.events = Append(@, [cmd |-> "detect", index |-> sc.current])]

\* Mutant of LoopEnds: the loop without its `if (stopped) break`.
LoopEndsIgnoringStop(sc, stop) == sc.current > sc.end

\* Mutant of LoopEnds: a do-while, the range is tested after the first index.
LoopEndsAfterFirst(sc, stop) == (sc.current > sc.end /\ sc.current # sc.start) \/ stop

\* the loop of verify ends: !(current <= end), or the break on stopped
LoopEnds(sc, stop) == sc.current > sc.end \/ stop

RECURSIVE WhileLoop(_, _, _, _)
\* The while loop of verify from sc.current, run until it suspends on the
\* detector (pc = "await", the image bytes in buff) or ends (pc = "done").
\* A slot that is not raw bytes is resolved without suspending.
WhileLoop(sc, items, stop, feature) ==
    IF LoopEnds(sc, stop) THEN AfterLoop(sc, stop, feature)
    ELSE LET data == ItemAt(items, sc.current)
         IN  IF IsRaw(data) THEN CallDetector(sc, data)
             ELSE With(Collect(sc, data), LAMBDA next : WhileLoop(next, items, stop, feature))

\* Mutant of NewScan: the scan starts at index 0 instead of start.
NewScanFromZero(start, end) ==
    [start |-> start, end |-> end, current |-> 0, features |-> << >>,
     indices |-> << >>, count |-> 0, matched |-> NoMatch, buff |-> None,
     error |-> FALSE, pc |-> "run", events |-> << >>,
     cancelled |-> FALSE, flagAtDo |-> stopped]

\* verify(work, start, end) at its entry.  (flagAtDo is history: the value
\* of the flag when the `do` message arrived.)
NewScan(start, end) ==
    [start |-> start, end |-> end, current |-> start, features |-> << >>,
     indices |-> << >>, count |-> 0, matched |-> NoMatch, buff |-> None,
     error |-> FALSE, pc |-> "run", events |-> << >>,
     cancelled |-> FALSE, flagAtDo |-> stopped]

\* History only: a scan in flight notes a message the worker receives
\* (cmd is "stop" or "do"), once for a run of the same message.
Note(sc, cmd) ==
    IF sc.pc = "await" /\ sc.events[Len(sc.events)].cmd # cmd
    THEN [sc EXCEPT !.events = Append(@, [cmd |-> cmd])]
    ELSE sc

\* ----------------------------------------------------------------- actions

\* Mutant of ResetStopped: the 'do' case without `stopped = false`.
KeepStopped == stopped

\* stopped = false, the first statement of the 'do' case
ResetStopped == FALSE

\* Worker.on('message') with cmd 'do': stopped = false; await verify(...)
Do(start, end) ==
    /\ Len(scans) < MaxScans
    /\ stopped' = ResetStopped
    /\ \E sc \in {WhileLoop(NewScan(start, end), work.items, stopped', work.feature)} :
           /\ scans' = Append([id \in 1..Len(scans) |-> Note(scans[id], "do")], sc)
           /\ detector' = (detector \/ sc.pc = "await")
    /\ UNCHANGED <<work, call>>

\* Worker.on('message') with cmd 'stop'
Stop ==
    /\ stopped' = TRUE
    /\ scans' = [id \in 1..Len(scans) |-> Note(scans[id], "stop")]
    /\ UNCHANGED <<detector, work, call>>

\* Mutant of Update: the event carries the bytes read, not items[index].
UpdateWithBytes(sc, data) ==
    [sc EXCEPT !.buff = None,
               !.events = Append(@, [cmd |-> "update", index |-> sc.current,
                                     data |-> Raw(sc.buff[1])])]

\* Worker.send({cmd: 'update', index, data: items[index], worker})
Update(sc, data) ==
    [sc EXCEPT !.buff = None,
               !.events = Append(@, [cmd |-> "update", index |-> sc.current, data |-> data])]

\* The detector call of scan id returns: the rest of getFaceFeatures, then
\* verify up to its next suspension or its end.  A throw of the detector
\* leaves getFaceFeatures and the loop for the catch block of verify.
DetectorReturn(id) ==
    /\ id \in 1..Len(scans)
    /\ scans[id].pc = "await"
    /\ \E sc \in {scans[id]} :
       \E face \in {Detected[sc.buff[1]]} :
       \E data \in {IF face.kind = "face" THEN Feat(face.features) ELSE Null} :
       \E items \in {[work.items EXCEPT ![sc.current] = data]} :
       \E next \in {Collect(Update(sc, items[sc.current]), data)} :
           IF face.kind = "throw"
           THEN /\ scans' = [scans EXCEPT ![id] = Catch(sc)]
                /\ UNCHANGED work
           ELSE /\ work' = [work EXCEPT !.items = items]
                /\ scans' = [scans EXCEPT ![id] =
                       WhileLoop(next, items, stopped, work.feature)]
    /\ UNCHANGED <<stopped, detector, call>>

Init ==
    /\ stopped = FALSE
    /\ detector = FALSE
    /\ work \in {[id |-> "w", items |-> it, feature |-> probe] :
                    it \in [0..(NItems - 1) -> InitSlots], probe \in InitProbes}
    /\ scans = << >>
    /\ call = NoCall

Next ==
    \/ \E start \in 0..(NItems - 1), end \in 0..NItems : Do(start, end)
    \/ Stop
    \/ \E id \in 1..MaxScans : DetectorReturn(id)

Spec == Init /\ [][Next]_vars

\* Every detector call eventually returns.
FairSpec == Spec /\ \A id \in 1..MaxScans : WF_vars(DetectorReturn(id))

\* ----------------------------------------- reading the history of a scan

Scans == 1..Len(scans)

\* positions of the events of scan id with the given cmd
Positions(id, cmd) == {i \in 1..Len(scans[id].events) : scans[id].events[i].cmd = cmd}

IsDone(id) == scans[id].pc = "done"

\* the `done` message of a finished scan is its last event
LastEvent(id) == scans[id].events[Len(scans[id].events)]

\* the `do` message of scan id has been received
Started(id) == id <= Len(scans)

\* scan id has sent its `done` message, and nothing after it
DoneSent(id) == IF Started(id) THEN LastEvent(id).cmd = "done" ELSE FALSE

\* ----------------------------------------------------------------------
\* C1: every scan emits exactly one `done`, whatever its outcome, and the
\* `done` is its last event: a scan in flight has sent none, a scan that
\* has ended (completed, cancelled, or after a throw) has sent exactly one,
\* with nothing after it, and a scan that has sent it sends nothing more.
C1_OneDoneLast ==
    \A id \in Scans :
        /\ Cardinality(Positions(id, "done")) = (IF IsDone(id) THEN 1 ELSE 0)
        /\ IsDone(id) => LastEvent(id).cmd = "done"
        /\ ~IsDone(id) => scans[id].pc = "await"

\* a scan ended by a throw of the detector, after an update of its own
C1_Witness ==
    \E id \in Scans :
        /\ IsDone(id) /\ scans[id].error
        /\ Positions(id, "update") # {}
        /\ Positions(id, "stop") = {}

\* ----------------------------------------------------------------------
\* C2: liveness.  When every detector call eventually returns (FairSpec),
\* every `do` is eventually followed by the `done` of its scan, whatever
\* `stop` and `do` messages arrive meanwhile.
C2_EveryDoGetsDone ==
    \A id \in 1..MaxScans : Started(id) ~> DoneSent(id)

\* a scan that called the detector twice, received a stop, and is done
C2_Witness ==
    \E id \in Scans :
        /\ IsDone(id)
        /\ Cardinality(Positions(id, "detect")) >= 2
        /\ Positions(id, "stop") # {}

\* ----------------------------------------- what a scan should have found

Events(id) == scans[id].events

\* position of the first `stop` a scan in flight received
FirstStop(id) == CHOOSE s \in Positions(id, "stop") : \A t \in Positions(id, "stop") : s <= t

RECURSIVE CandidatesFrom(_, _)
\* the indices from..upto whose slot holds a feature vector, ascending
CandidatesFrom(from, upto) ==
    IF from > upto THEN << >>
    ELSE (IF IsFeat(ItemAt(work.items, from)) THEN <<from>> ELSE << >>)
         \o CandidatesFrom(from + 1, upto)

\* the match of the probe over the feature slots of from..upto: what
\* `matched` holds after a find over exactly these candidates
ExpectedMatch(from, upto) ==
    With(CandidatesFrom(from, upto), LAMBDA cand :
    With(ProbeFind(work.feature, [i \in 1..Len(cand) |-> work.items[cand[i]].feat]), LAMBDA found :
        IF cand = << >> \/ found.throws \/ found.index = None THEN NoMatch
        ELSE Matched(cand, found)))

\* ----------------------------------------------------------------------
\* C3: a scan that receives a `stop` while in flight, and no `do`, starts no
\* detector call after the stop; only the call in flight at the stop (index
\* k) completes, so at most one update follows the stop and it is for k; no
\* index above k is resolved; and every slot the scan rewrote still holds
\* the value its update carried.
C3_StopHaltsScan ==
    \A id \in Scans :
        (Positions(id, "stop") # {} /\ Positions(id, "do") = {}) =>
            LET ev == Events(id)
                s == FirstStop(id)
                k == ev[s - 1].index
            IN  /\ ev[s - 1].cmd = "detect"
                /\ \A i \in Positions(id, "detect") : i < s
                /\ Cardinality({i \in Positions(id, "update") : i > s}) <= 1
                /\ \A i \in Positions(id, "update") :
                       /\ ev[i].index <= k
                       /\ i > s => ev[i].index = k
                       /\ ItemAt(work.items, ev[i].index) = ev[i].data
                /\ scans[id].current <= k + 1
                /\ scans[id].indices # << >> => scans[id].indices[Len(scans[id].indices)] <= k

\* a scan stopped during the call of index 0 of the range 0..1: the call
\* completed (one update after the stop), the scan is done, and slot 1 still
\* holds raw bytes
C3_Witness ==
    \E id \in Scans :
        /\ Positions(id, "stop") # {} /\ Positions(id, "do") = {}
        /\ IsDone(id)
        /\ scans[id].start = 0 /\ scans[id].end >= 1
        /\ Cardinality({i \in Positions(id, "update") : i > FirstStop(id)}) = 1
        /\ IsRaw(ItemAt(work.items, 1))

\* ----------------------------------------------------------------------
\* C4: a scan whose loop ended with the stop flag set reports matched: null
\* in its `done`, even when a candidate within the threshold was collected
\* and every index of the range was processed.
C4_CancelledReportsNull ==
    \A id \in Scans :
        (IsDone(id) /\ scans[id].cancelled) => LastEvent(id).matched = NoMatch

\* a cancelled scan that processed its whole range and had collected a
\* candidate within the threshold
C4_Witness ==
    \E id \in Scans :
        /\ IsDone(id) /\ scans[id].cancelled
        /\ scans[id].current > scans[id].end
        /\ scans[id].features # << >>
        /\ ProbeFind(work.feature, scans[id].features).index # None

\* ----------------------------------------------------------------------
\* C5 as stated: when the loop of a scan ends on the stop flag, its updates
\* are for indices processed before that, and `done` carries the find result
\* over the candidates among the processed indices.
C5_AsStated ==
    \A id \in Scans :
        (IsDone(id) /\ scans[id].cancelled) =>
            /\ \A i \in Positions(id, "update") : Events(id)[i].index < scans[id].current
            /\ LastEvent(id).matched = ExpectedMatch(scans[id].start, scans[id].current - 1)

\* C5, amended: when the loop of a scan ends on the stop flag, its updates
\* are for indices processed before that (each below the final current, each
\* after a detector call of that index), the candidates collected are exactly
\* the feature slots among the processed indices, and `done` carries
\* matched: null - no find is run over them.
C5_CancelledSubset ==
    \A id \in Scans :
        (IsDone(id) /\ scans[id].cancelled) =>
            /\ \A i \in Positions(id, "update") :
                   /\ Events(id)[i].index < scans[id].current
                   /\ \E j \in Positions(id, "detect") :
                          j < i /\ Events(id)[j].index = Events(id)[i].index
            /\ scans[id].indices = CandidatesFrom(scans[id].start, scans[id].current - 1)
            /\ LastEvent(id).matched = NoMatch

\* a scan cancelled after index 0 of the range 0..1, with its update, whose
\* processed subset holds a match
C5_Witness ==
    \E id \in Scans :
        /\ IsDone(id) /\ scans[id].cancelled
        /\ scans[id].start = 0 /\ scans[id].end >= 1 /\ scans[id].current = 1
        /\ Positions(id, "update") # {}
        /\ ExpectedMatch(0, 0) # NoMatch

\* ----------------------------------------------------------------------
\* C6: a `stop` received while no scan is in flight changes nothing but the
\* flag (no event, no slot), the next `do` resets the flag, and the scan of
\* a `do` that found the flag set is not cancelled by it: unless a `stop`
\* arrives during the scan or the detector throws, it visits every index of
\* its range and reports the find result over the feature slots of the range.
C6_IdleStopHarmless ==
    /\ [][ ((\A id \in Scans : IsDone(id)) /\ Len(scans') = Len(scans))
               => UNCHANGED <<work, scans, detector>> ]_vars
    /\ [][ Len(scans') > Len(scans) => ~stopped' ]_vars
    /\ [](\A id \in Scans :
            (scans[id].flagAtDo /\ Positions(id, "stop") = {}) =>
                /\ ~scans[id].cancelled
                /\ (IsDone(id) /\ ~scans[id].error) =>
                       /\ scans[id].current > scans[id].end
                       /\ LastEvent(id).matched = ExpectedMatch(scans[id].start, scans[id].end))

\* a scan started with the flag set by an idle stop, which resolved raw
\* slots and reported a match
C6_Witness ==
    \E id \in Scans :
        /\ scans[id].flagAtDo /\ Positions(id, "stop") = {}
        /\ IsDone(id) /\ ~scans[id].error
        /\ Positions(id, "update") # {}
        /\ LastEvent(id).matched # NoMatch

\* ----------------------------------------------------------------------
\* C7: the updates of one scan are in strictly ascending index order (so no
\* index has two), and every index lies in [start, end].
C7_UpdatesAscending ==
    \A id \in Scans :
        /\ \A i \in Positions(id, "update") :
               scans[id].start <= Events(id)[i].index /\ Events(id)[i].index <= scans[id].end
        /\ \A i, j \in Positions(id, "update") :
               i < j => Events(id)[i].index < Events(id)[j].index

\* a scan of 1..1 with an update, and a scan with two updates
C7_Witness ==
    /\ \E id \in Scans : scans[id].start = 1 /\ Positions(id, "update") # {}
    /\ \E id \in Scans : Cardinality(Positions(id, "update")) = 2

\* the number of updates scan sc has sent
Updates(sc) == Cardinality({i \in 1..Len(sc.events) : sc.events[i].cmd = "update"})

\* the step from sc to next is the return of the detector call of sc without
\* a throw: the scan was suspended and its next event is neither a message
\* it noted nor the `done` of the catch block
Returned(sc, next) ==
    /\ sc.pc = "await"
    /\ Len(next.events) > Len(sc.events)
    /\ next.events[Len(sc.events) + 1].cmd \notin {"stop", "do"}
    /\ ~(next.error /\ next.events[Len(sc.events) + 1].cmd = "done")

\* ----------------------------------------------------------------------
\* C8: a step in which a detector call returns without throwing rewrites the
\* slot of the call to a feature vector or to null and sends exactly one
\* update, whose index is the slot's and whose data is the slot's new
\* content; and an update is sent in no other step.
C8_ResolveRewritesAndUpdates ==
    [][ /\ \A id \in Scans :
               IF Returned(scans[id], scans'[id])
               THEN /\ Updates(scans'[id]) = Updates(scans[id]) + 1
                    /\ scans'[id].events[Len(scans[id].events) + 1] =
                           [cmd |-> "update", index |-> scans[id].current,
                            data |-> work'.items[scans[id].current]]
                    /\ work'.items[scans[id].current].kind \in {"features", "null"}
               ELSE Updates(scans'[id]) = Updates(scans[id])
        /\ \A id \in 1..Len(scans') : id > Len(scans) => Updates(scans'[id]) = 0
      ]_vars

\* a scan has resolved a raw slot to a feature vector and another to null
C8_Witness ==
    \E id \in Scans :
        \E i, j \in Positions(id, "update") :
            /\ Events(id)[i].data.kind = "features"
            /\ Events(id)[j].data.kind = "null"
            /\ work.items[Events(id)[i].index] = Events(id)[i].data
            /\ work.items[Events(id)[j].index] = Events(id)[j].data

\* ----------------------------------------------------------------------
\* C9 as stated: a detection failure never aborts the scan.  Every detector
\* call of a finished scan was followed by the update of its index, carrying
\* a feature vector or null, and a scan that was not cancelled went through
\* its whole range.
C9_FailureNeverAborts ==
    \A id \in Scans :
        IsDone(id) =>
            /\ \A j \in Positions(id, "detect") :
                   \E i \in Positions(id, "update") :
                       /\ i > j /\ Events(id)[i].index = Events(id)[j].index
                       /\ Events(id)[i].data.kind \in {"features", "null"}
            /\ ~scans[id].cancelled => scans[id].current > scans[id].end

\* ----------------------------------------------------------------------
\* C10: the label of a non-null matched is an index of [start, end] whose
\* slot holds a feature vector.
C10_MatchIsFeatureSlot ==
    \A id \in Scans :
        (IsDone(id) /\ LastEvent(id).matched # NoMatch) =>
            /\ LastEvent(id).matched.label \in scans[id].start..scans[id].end
            /\ IsFeat(ItemAt(work.items, LastEvent(id).matched.label))

\* a match at index 1 of the range 0..1 whose index 0 was resolved to null
C10_Witness ==
    \E id \in Scans :
        /\ IsDone(id) /\ LastEvent(id).matched # NoMatch
        /\ LastEvent(id).matched.label = 1
        /\ scans[id].start = 0
        /\ \E i \in Positions(id, "update") :
               Events(id)[i].index = 0 /\ Events(id)[i].data = Null

\* ======================================================================
\* Direct calls of the functions of face.js, on arguments drawn from bounded
\* sets: PureInit draws the arguments, the actions apply the function.

\* longest group, and most groups, of a drawn feature vector
MaxGroupLen == 2
MaxGroups == 2

GroupKeys == {"lips", "leftEye"}

\* coordinates of drawn groups: 0 and 0.3
Coords == {0, 300}

GroupValues == UNION {[1..n -> Coords] : n \in 0..MaxGroupLen}

\* feature vectors: up to MaxGroups groups under distinct keys, in any order
Vectors ==
    {f \in UNION {[1..n -> [k : GroupKeys, v : GroupValues]] : n \in 0..MaxGroups} :
        \A i, j \in 1..Len(f) : i # j => f[i].k # f[j].k}

\* this.distance(features): the number returned, or the throw
DistanceOutcome(a, b) ==
    IF DistanceThrows(a, b) THEN [kind |-> "throw"]
    ELSE [kind |-> "number", v |-> distance(a, b)]

DistanceInputs == {[op |-> "input", fn |-> "distance", a |-> a, b |-> b] : a, b \in Vectors}

\* a.distance(b)
ApplyDistance ==
    /\ call.op = "input" /\ call.fn = "distance"
    /\ call' = [op |-> "distance", a |-> call.a, b |-> call.b,
                out |-> DistanceOutcome(call.a, call.b)]
    /\ UNCHANGED <<stopped, detector, work, scans>>

\* longest candidate list of a drawn call of find
MaxList == 3

\* the probe of the drawn calls of find: one group of one value
FindProbe == <<[k |-> "lips", v |-> <<0>>]>>

\* candidates at distance 0, 0.03, 0.075 and 0.076 of FindProbe, one whose
\* group is empty (distance NaN), one under another key (distance throws)
FindCandidates ==
    {<<[k |-> "lips", v |-> <<y>>]>> : y \in {0, 30, 75, 76}}
        \cup {<<[k |-> "lips", v |-> << >>]>>, <<[k |-> "leftEye", v |-> <<0>>]>>}

\* the default threshold 0.075, and 0.03
Thresholds == {confidence, 30 * 60}

FindInputs ==
    {[op |-> "input", fn |-> "find", a |-> FindProbe, list |-> l, threshold |-> t] :
        l \in UNION {[1..n -> FindCandidates] : n \in 0..MaxList}, t \in Thresholds}

\* a.find(list, threshold)
ApplyFind ==
    /\ call.op = "input" /\ call.fn = "find"
    /\ call' = [op |-> "find", a |-> call.a, list |-> call.list, threshold |-> call.threshold,
                out |-> find(call.a, call.list, call.threshold)]
    /\ UNCHANGED <<stopped, detector, work, scans>>

\* most keypoints of a drawn landmark
MaxKeypoints == 2

\* keypoints of a drawn landmark: a marker name, x of 30 or 50, y of 50, z of
\* 0 or 10 (pixels)
\* the names the detector gives its keypoints: two feature groups and a
\* geometry-only group
KeypointNames == GroupKeys \cup {"faceOval"}

Keypoints == {Keypoint(name, x, 50, z) : name \in KeypointNames, x \in {30, 50}, z \in {0, 10}}

\* a bounding box away from the origin of the image, not square
Box10 == [xMin |-> Px(10), yMin |-> Px(20), width |-> Px(100), height |-> Px(50)]

Boxes == {Box100, Box10}

\* the faces the detector may return: 1..MaxKeypoints keypoints in a box
Landmarks ==
    {[box |-> box, keypoints |-> kps] :
        box \in Boxes, kps \in UNION {[1..n -> Keypoints] : n \in 1..MaxKeypoints}}

LandmarkInputs == {[op |-> "input", fn |-> "landmark", lm |-> lm] : lm \in Landmarks}

\* new FaceLandmark(lm) and its getFeatures()
ApplyLandmark ==
    /\ call.op = "input" /\ call.fn = "landmark"
    /\ \E face \in {FaceLandmark(call.lm)} :
           call' = [op |-> "landmark", lm |-> call.lm, points |-> face.points,
                    features |-> getFeatures(face)]
    /\ UNCHANGED <<stopped, detector, work, scans>>

\* the feature vectors whose wire map is converted: the drawn ones and those
\* of the drawn landmarks
FromInputs ==
    {[op |-> "input", fn |-> "from", f |-> f] :
        f \in Vectors \cup {getFeatures(FaceLandmark(lm)) : lm \in Landmarks}}

\* FaceFeatures.from(map of f), and f.distance of the result
ApplyFrom ==
    /\ call.op = "input" /\ call.fn = "from"
    /\ \E res \in {FeaturesFrom(call.f)} :
           call' = [op |-> "from", f |-> call.f, out |-> res,
                    self |-> DistanceOutcome(call.f, res)]
    /\ UNCHANGED <<stopped, detector, work, scans>>

\* the identity parameters of normalize: nothing subtracted, every scale 1
IdentityArgs ==
    [xMin |-> Some(0), yMin |-> Some(0), zMin |-> Some(0),
     xScale |-> Some(Ratio(1, 1)), yScale |-> Some(Ratio(1, 1)), zScale |-> Some(Ratio(1, 1))]

\* the points of new FaceLandmark(lm), normalized once more with the
\* identity parameters
ApplyRenormalize ==
    /\ call.op = "input" /\ call.fn = "landmark"
    /\ \E face \in {FaceLandmark(call.lm)} :
           call' = [op |-> "renormalize", lm |-> call.lm, before |-> face.points,
                    after |-> PointsNormalize(face.points, IdentityArgs)]
    /\ UNCHANGED <<stopped, detector, work, scans>>

PureInputs == DistanceInputs \cup FindInputs \cup LandmarkInputs \cup FromInputs

PureInit ==
    /\ stopped = FALSE
    /\ detector = FALSE
    /\ work = [id |-> "w", items |-> [i \in 0..(NItems - 1) |-> Null], feature |-> Some(ProbeFeature)]
    /\ scans = << >>
    /\ call \in PureInputs

PureNext ==
    \/ ApplyDistance
    \/ ApplyFind
    \/ ApplyLandmark
    \/ ApplyFrom
    \/ ApplyRenormalize

PureSpec == PureInit /\ [][PureNext]_vars

\* the group keys of a feature vector
KeySet(f) == {f[i].k : i \in 1..Len(f)}

\* a and b differ in their set of group keys, or in the length of a shared group
ShapeMismatch(a, b) ==
    \/ KeySet(a) # KeySet(b)
    \/ \E i \in 1..Len(a), j \in 1..Len(b) : a[i].k = b[j].k /\ Len(a[i].v) # Len(b[j].v)

\* ----------------------------------------------------------------------
\* C11 as stated: distance(a, b) throws whenever a and b differ in their set
\* of group keys or in the length of a shared group.
C11_MismatchAlwaysFails ==
    (call.op = "distance" /\ ShapeMismatch(call.a, call.b)) => call.out.kind = "throw"

\* ----------------------------------------------------------------------
\* C12 as stated: a finished scan with a candidate in its range whose shape
\* differs from the probe's (group keys or group lengths) reports matched:
\* null.
C12_MismatchGivesNull ==
    \A id \in Scans :
        (/\ IsDone(id)
         /\ work.feature # None
         /\ \E i \in scans[id].start..scans[id].end :
                /\ IsFeat(ItemAt(work.items, i))
                /\ ShapeMismatch(FeaturesFrom(work.feature[1]), work.items[i].feat))
            => LastEvent(id).matched = NoMatch

\* ----------------------------------------------------------------------
\* C13: a throw inside a scan (of the detector call, of the conversion of
\* the probe, of a distance computation) is contained: the scan that threw
\* has ended with its `done` as last event, carrying matched: null, and the
\* worker takes the next `do`.
C13_ErrorsContained ==
    \A id \in Scans :
        scans[id].error =>
            /\ IsDone(id)
            /\ Positions(id, "done") # {}
            /\ LastEvent(id) = [cmd |-> "done", matched |-> NoMatch]
            /\ Len(scans) < MaxScans => ENABLED Do(0, 0)

\* a scan ended by a throw of distance (no detector call, probe defined),
\* followed by a scan that reported a match
C13_Witness ==
    \E id, later \in Scans :
        /\ id < later
        /\ scans[id].error /\ Positions(id, "detect") = {} /\ work.feature # None
        /\ IsDone(later) /\ LastEvent(later).matched # NoMatch

\* candidate i (1-based) of the applied call of find is within its threshold
Within(i) ==
    /\ ~IsNaN(distance(call.a, call.list[i]))
    /\ distance(call.a, call.list[i]) <= call.threshold

\* the applied call is a find that returned (no distance threw)
FindReturned == call.op = "find" /\ ~call.out.throws

\* ----------------------------------------------------------------------
\* C14: find never returns a candidate whose distance exceeds the threshold,
\* and returns no index when no candidate is within the threshold.
C14_FindWithinThreshold ==
    FindReturned =>
        /\ call.out.index # None =>
               /\ call.out.index[1] + 1 \in 1..Len(call.list)
               /\ Within(call.out.index[1] + 1)
               /\ call.out.conf[1] <= call.threshold
        /\ (\A i \in 1..Len(call.list) : ~Within(i)) => call.out.index = None

\* find with the default threshold returned the candidate at 0.075 from a
\* list that also holds the candidate at 0.076
C14_Witness ==
    /\ FindReturned /\ call.threshold = confidence
    /\ call.out.index # None /\ call.out.conf = Some(confidence)
    /\ \E i \in 1..Len(call.list) :
           ~IsNaN(distance(call.a, call.list[i])) /\ ~Within(i)

\* ----------------------------------------------------------------------
\* C15: when a candidate is within the threshold, find returns one of
\* minimal distance among those within the threshold, and of these the one
\* at the smallest position of the list.
C15_FindMinimalFirst ==
    FindReturned =>
        \A i \in 1..Len(call.list) :
            Within(i) =>
                /\ call.out.index # None
                /\ call.out.conf[1] = distance(call.a, call.list[call.out.index[1] + 1])
                /\ call.out.conf[1] <= distance(call.a, call.list[i])
                /\ call.out.conf[1] = distance(call.a, call.list[i]) => call.out.index[1] + 1 <= i

\* find returned position 2 of a list whose position 3 is at the same
\* distance and whose position 1 is within the threshold but farther
C15_Witness ==
    /\ FindReturned /\ Len(call.list) = 3
    /\ call.out.index = Some(1)
    /\ Within(1) /\ Within(3)
    /\ distance(call.a, call.list[3]) = call.out.conf[1]
    /\ distance(call.a, call.list[1]) > call.out.conf[1]

\* the distance of the probe of the work to the feature vector of slot i
SlotDistance(i) == distance(FeaturesFrom(work.feature[1]), work.items[i].feat)

\* slot i holds a feature vector at distance <= 0.075 of the probe
SlotWithin(i) ==
    /\ IsFeat(ItemAt(work.items, i))
    /\ ~IsNaN(SlotDistance(i))
    /\ SlotDistance(i) <= confidence

\* scan id ran to its end: not cancelled, no throw
Completed(id) == IsDone(id) /\ ~scans[id].cancelled /\ ~scans[id].error

\* ----------------------------------------------------------------------
\* C16: for a scan that was neither cancelled nor ended by a throw, matched
\* is non-null exactly when a feature slot of [start, end] is at distance
\* <= 0.075 of the probe; its confidence is then 1 minus the distance of
\* the slot it names, so 1 for an identical candidate and never below 0.925.
C16_MatchIffWithin ==
    \A id \in Scans :
        Completed(id) =>
            /\ LastEvent(id).matched # NoMatch
                   <=> \E i \in scans[id].start..scans[id].end : SlotWithin(i)
            /\ LastEvent(id).matched # NoMatch =>
                   /\ LastEvent(id).matched.confidence
                          = One - SlotDistance(LastEvent(id).matched.label)
                   /\ LastEvent(id).matched.confidence >= One - confidence
                   /\ SlotDistance(LastEvent(id).matched.label) = 0
                          => LastEvent(id).matched.confidence = One

\* a completed scan over a feature slot beyond the threshold reported null,
\* and another over an identical candidate reported confidence 1
C16_Witness ==
    /\ \E id \in Scans :
           /\ Completed(id) /\ LastEvent(id).matched = NoMatch
           /\ \E i \in scans[id].start..scans[id].end : IsFeat(ItemAt(work.items, i))
    /\ \E id \in Scans :
           /\ Completed(id) /\ LastEvent(id).matched # NoMatch
           /\ LastEvent(id).matched.confidence = One

\* ----------------------------------------------------------------------
\* C17: a scan of a range with end < start calls the detector for no index,
\* sends no update and exactly one `done`, with matched: null, and the step
\* of its `do` changes no slot.
C17_EmptyRange ==
    /\ [](\A id \in Scans :
              scans[id].end < scans[id].start =>
                  /\ IsDone(id)
                  /\ Events(id) = <<[cmd |-> "done", matched |-> NoMatch]>>)
    /\ [][ \A id \in 1..Len(scans') :
               (id > Len(scans) /\ scans'[id].end < scans'[id].start)
                   => work' = work /\ detector' = detector ]_vars

\* a finished scan of the range 1..0 while slots 0 and 1 hold raw bytes
C17_Witness ==
    \E id \in Scans :
        /\ scans[id].start = 1 /\ scans[id].end = 0 /\ IsDone(id)
        /\ IsRaw(work.items[0]) /\ IsRaw(work.items[1])

\* ----------------------------------------------------------------------
\* C18 as stated: distance(a, b) and distance(b, a) have the same outcome,
\* the same number or both a throw.
C18_DistanceSymmetric ==
    call.op = "distance" => call.out = DistanceOutcome(call.b, call.a)

\* ----------------------------------------------------------------------
\* C19 as stated: FaceFeatures.from of the wire map of a feature vector F
\* has the groups of F, in the same order with the same values, and
\* distance(F, from(map of F)) is 0.
C19_RoundTrip ==
    call.op = "from" =>
        /\ call.out = call.f
        /\ call.self = [kind |-> "number", v |-> 0]

\* all keypoints of the landmark have the same z
FlatZ(lm) == \A i, j \in 1..Len(lm.keypoints) : lm.keypoints[i].z = lm.keypoints[j].z

\* ----------------------------------------------------------------------
\* C20 as stated: for a landmark whose keypoints all have the same z, every
\* normalized coordinate and every value of the feature vector is finite,
\* and the z-scale is the neutral 1 (z - zMin is kept: 0).
C20_FlatZFinite ==
    (call.op = "landmark" /\ FlatZ(call.lm)) =>
        /\ \A i \in 1..Len(call.points) :
               /\ IsFinite(call.points[i].x) /\ IsFinite(call.points[i].y)
               /\ call.points[i].z = 0
        /\ \A g \in 1..Len(call.features) :
               \A k \in 1..Len(call.features[g].v) : IsFinite(call.features[g].v[k])

\* ----------------------------------------------------------------------
\* C21 as stated: a scan that received a `stop` while in flight ends
\* cancelled whatever the worker receives afterwards, a later `do`
\* included: it starts no detector call after the stop, resolves no index
\* above the one in flight at the stop, and its `done` carries matched: null.
C21_StopStaysCancelled ==
    \A id \in Scans :
        Positions(id, "stop") # {} =>
            LET ev == Events(id)
                s == FirstStop(id)
                d == CHOOSE i \in Positions(id, "detect") :
                         i < s /\ \A j \in Positions(id, "detect") : j < s => j <= i
                k == ev[d].index
            IN  /\ \A i \in Positions(id, "detect") : i < s
                /\ \A i \in Positions(id, "update") : ev[i].index <= k
                /\ IsDone(id) => LastEvent(id).matched = NoMatch

\* ----------------------------------------------------------------------
\* C22 as stated: at most one detector call of the worker is in flight at
\* any time, for any sequence of `do` and `stop` messages: no two scans are
\* suspended on the detector together.
C22_OneCallInFlight ==
    Cardinality({id \in Scans : scans[id].pc = "await"}) <= 1

\* the events scan id gains in the step
NewEvents(id) ==
    LET n == IF id <= Len(scans) THEN Len(scans[id].events) ELSE 0
    IN  {scans'[id].events[i] : i \in (n + 1)..Len(scans'[id].events)}

\* the indices scan id passes in the step without suspending: from the start
\* of a new scan, or from the index after the one whose detector call
\* returned, up to where the scan suspends or ends
Passed(id) ==
    LET from == IF id > Len(scans) THEN scans'[id].start
                ELSE IF Returned(scans[id], scans'[id]) THEN scans[id].current + 1
                ELSE scans'[id].current
    IN  from..(scans'[id].current - 1)

\* ----------------------------------------------------------------------
\* C23: a scan that reaches a slot already holding a feature vector or null
\* passes it without suspending: it starts no detector call for the index,
\* sends no update for it and leaves the slot as it was; a cached feature
\* vector is collected as a candidate under its index, a cached null is not
\* collected.  A detector call is started only on a slot of raw bytes.
C23_CacheHit ==
    [][ \A id \in 1..Len(scans') :
            /\ \A i \in Passed(id) :
                   LET slot == ItemAt(work.items, i)
                       sc == scans'[id]
                   IN  /\ ~IsRaw(slot)
                       /\ ItemAt(work'.items, i) = slot
                       /\ \A e \in NewEvents(id) :
                              e.cmd \in {"detect", "update"} => e.index # i
                       /\ IsFeat(slot) =>
                              \E p \in 1..Len(sc.indices) :
                                  sc.indices[p] = i /\ sc.features[p] = slot.feat
                       /\ ~IsFeat(slot) =>
                              \A p \in 1..Len(sc.indices) : sc.indices[p] # i
            /\ \A e \in NewEvents(id) :
                   e.cmd = "detect" => IsRaw(ItemAt(work.items, e.index))
      ]_vars

\* a scan of 0..1 has passed a cached feature vector at 0 and a cached null
\* at 1 and is done with no detector call and no update, index 0 collected
C23_Witness ==
    \E id \in Scans :
        /\ IsDone(id) /\ scans[id].start = 0 /\ scans[id].end = 1
        /\ IsFeat(ItemAt(work.items, 0)) /\ ItemAt(work.items, 1) = Null
        /\ Positions(id, "detect") = {} /\ Positions(id, "update") = {}
        /\ scans[id].indices = <<0>>

\* the position (from 0) find selects among the candidates scan id collected
Selected(id) == ProbeFind(work.feature, scans[id].features).index[1]

\* the indices of start..(upto - 1) scan id did not collect as candidates
NotCollected(id, upto) ==
    {i \in scans[id].start..(upto - 1) :
        \A p \in 1..Len(scans[id].indices) : scans[id].indices[p] # i}

\* ----------------------------------------------------------------------
\* C24: when find selects position p of the candidates of a scan, the label
\* of matched is the item index of that candidate: the slot of the label
\* holds the vector at position p, and the label is start + p plus the
\* number of indices below it that were not collected, so it differs from
\* start + p whenever an earlier index of the range was skipped.
C24_LabelIsItemIndex ==
    \A id \in Scans :
        (IsDone(id) /\ LastEvent(id).matched # NoMatch) =>
            LET p == Selected(id)
                label == LastEvent(id).matched.label
            IN  /\ label = scans[id].indices[p + 1]
                /\ IsFeat(ItemAt(work.items, label))
                /\ work.items[label].feat = scans[id].features[p + 1]
                /\ label = scans[id].start + p + Cardinality(NotCollected(id, label))
                /\ NotCollected(id, label) # {} => label # scans[id].start + p

\* a scan of 0..1 whose slot 0 holds null matched the only candidate,
\* position 0, and reported label 1
C24_Witness ==
    \E id \in Scans :
        /\ IsDone(id) /\ LastEvent(id).matched # NoMatch
        /\ scans[id].start = 0 /\ ItemAt(work.items, 0) = Null
        /\ Selected(id) = 0
        /\ NotCollected(id, 1) = {0}
        /\ LastEvent(id).matched.label = 1

\* ----------------------------------------------------------------------
\* C25 as stated: over any scans, every write of a slot (each is reported by
\* an update) finds the slot holding raw bytes and leaves a feature vector
\* or null in it, so a slot that holds a feature vector or null is never
\* written again; and the index written lies in the range of the scan.
C25_SlotWrittenOnce ==
    [][ /\ \A id \in 1..Len(scans') :
               \A e \in NewEvents(id) :
                   e.cmd = "update" =>
                       /\ IsRaw(ItemAt(work.items, e.index))
                       /\ e.data.kind \in {"features", "null"}
                       /\ e.index \in scans'[id].start..scans'[id].end
        /\ \A i \in DOMAIN work.items :
               work'.items[i] # work.items[i] =>
                   IsRaw(work.items[i]) /\ work'.items[i].kind \in {"features", "null"}
      ]_vars

\* ----------------------------------------------------------------------
\* C26 as stated: after a landmark is normalized, the orig of each point
\* holds the x, y and z its keypoint had before normalization, before both
\* the translation and the scaling.
C26_OrigIsRaw ==
    call.op = "landmark" =>
        \A i \in 1..Len(call.points) :
            call.points[i].orig = [x |-> Some(call.lm.keypoints[i].x),
                                   y |-> Some(call.lm.keypoints[i].y),
                                   z |-> Some(call.lm.keypoints[i].z)]

\* the positions of the points of a landmark with the given name
NamedAt(points, name) == {i \in 1..Len(points) : points[i].name = name}

\* ----------------------------------------------------------------------
\* C27: the keys of the feature vector of a landmark are the groups
\* leftEye, leftIris, lips, rightEye, rightIris that have at least one
\* keypoint, in that order; faceOval, leftEyebrow and rightEyebrow never
\* appear and a group without keypoints is left out; the value of a group
\* has three numbers per point of the group, the x, y, z of its points in
\* point order.
C27_FeatureKeysAndValues ==
    call.op = "landmark" =>
        /\ FeatureKeys(call.features) =
               SelectSeq(<<"leftEye", "leftIris", "lips", "rightEye", "rightIris">>,
                         LAMBDA k : NamedAt(call.points, k) # {})
        /\ \A g \in 1..Len(call.features) :
               LET at == NamedAt(call.points, call.features[g].k)
                   v == call.features[g].v
               IN  /\ Len(v) = 3 * Cardinality(at)
                   /\ \A i \in at :
                          LET j == Cardinality({m \in at : m <= i})
                          IN  /\ v[3 * j - 2] = call.points[i].x
                              /\ v[3 * j - 1] = call.points[i].y
                              /\ v[3 * j] = call.points[i].z

\* a landmark with a faceOval keypoint and a lips keypoint and none of
\* leftEye: the feature vector is the lips group alone, three numbers
C27_Witness ==
    /\ call.op = "landmark"
    /\ NamedAt(call.points, "faceOval") # {}
    /\ NamedAt(call.points, "lips") # {}
    /\ NamedAt(call.points, "leftEye") = {}
    /\ FeatureKeys(call.features) = <<"lips">>
    /\ Len(call.features[1].v) = 3

\* ----------------------------------------------------------------------
\* C28: normalizing the points of a normalized landmark once more, with
\* xMin = yMin = zMin = 0 and every scale 1, leaves the x, y and z of every
\* point as they were.
C28_IdentityRenormalize ==
    call.op = "renormalize" =>
        /\ Len(call.after) = Len(call.before)
        /\ \A i \in 1..Len(call.before) :
               /\ call.after[i].x = call.before[i].x
               /\ call.after[i].y = call.before[i].y
               /\ call.after[i].z = call.before[i].z

\* a point normalized to x = 0.2, y = 0.6, z = 1 has been normalized again
C28_Witness ==
    /\ call.op = "renormalize"
    /\ \E i \in 1..Len(call.before) :
           /\ call.before[i].x = 200 /\ call.before[i].y = 600 /\ call.before[i].z = scale
           /\ call.after[i].x = 200 /\ call.after[i].y = 600 /\ call.after[i].z = scale

====
